---------------------------- MODULE Spec2Model ----------------------------
(***************************************************************************)
(* Model of linkedin_job_bot.py: the keyword scorer (normalize_words,      *)
(* ats_score), the filter (filter_jobs_by_score), the logger               *)
(* (log_application, apply_to_jobs) and the scheduler (run_once, main).    *)
(*                                                                         *)
(* A text is a sequence of one-character strings.  A score and a threshold *)
(* are integers counting hundredths (57.14 is 5714): round(x, 2) yields a  *)
(* multiple of 0.01, and RoundHalfEven below agrees with Python's          *)
(* round((m / n) * 100, 2) for every n below 160 token kinds.              *)
(***************************************************************************)
EXTENDS Integers, Sequences, FiniteSets, TLC

\* ------------------------------------------------------------------ bounds

\* Longest job description enumerated character by character.
MaxJobLen == 5

\* Longest resume enumerated character by character.
MaxResumeLen == 2

\* Most postings in a jobs file.
MaxJobs == 2

\* Most passes of run_once the scheduler is followed through.
MaxPasses == 2

\* ------------------------------------------------------------- characters

LowerLetters ==
  <<"a", "b", "c", "d", "e", "f", "g", "h", "i", "j", "k", "l", "m",
    "n", "o", "p", "q", "r", "s", "t", "u", "v", "w", "x", "y", "z">>

UpperLetters ==
  <<"A", "B", "C", "D", "E", "F", "G", "H", "I", "J", "K", "L", "M",
    "N", "O", "P", "Q", "R", "S", "T", "U", "V", "W", "X", "Y", "Z">>

Digits == {"0", "1", "2", "3", "4", "5", "6", "7", "8", "9"}

Range(s) == {s[k] : k \in DOMAIN s}

\* WORD_RE's first class, [a-zA-Z].
HeadChars == Range(LowerLetters) \cup Range(UpperLetters)

\* The tail class with the full stop left out.
TailCharsNoDot == HeadChars \cup Digits \cup {"+", "#", "-"}

\* WORD_RE's second class, [a-zA-Z0-9+.#-].
TailChars == HeadChars \cup Digits \cup {"+", ".", "#", "-"}

\* str.lower() on a character a match can hold.
LowerChar ==
  [c \in TailChars |->
     IF \E k \in DOMAIN UpperLetters : UpperLetters[k] = c
       THEN LowerLetters[CHOOSE k \in DOMAIN UpperLetters :
                           UpperLetters[k] = c]
       ELSE c]

\* ------------------------------------------------------------- normalizer

\* WORD_RE.finditer(text), each match lowercased.  MatchEnd[j] is where the
\* greedy "+" stops once position j is matched: at the end of the run of
\* tail characters.  Group[p] is match.group(0).lower() for the match that
\* starts at p.  FindIter[p] is the search from position p: the leftmost
\* match (a head character followed by at least one tail character), then
\* the search resumes after it.
normalize_words(text) ==
  LET MatchEnd[j \in 1..Len(text)] ==
        IF j < Len(text) /\ text[j + 1] \in TailChars
          THEN MatchEnd[j + 1]
          ELSE j
      Group[p \in 1..Len(text)] ==
        [k \in 1..(MatchEnd[p + 1] - p + 1) |-> LowerChar[text[p + k - 1]]]
      FindIter[p \in 1..(Len(text) + 1)] ==
        IF p > Len(text)
          THEN <<>>
          ELSE IF /\ text[p] \in HeadChars
                  /\ p + 1 <= Len(text)
                  /\ text[p + 1] \in TailChars
            THEN <<Group[p]>> \o FindIter[MatchEnd[p + 1] + 1]
            ELSE FindIter[p + 1]
  IN  FindIter[1]

\* ----------------------------------------------------------------- scorer

\* round(num / den, 0) as Python rounds: to the nearest, ties to even.
RoundHalfEven(num, den) ==
  LET q == num \div den
      r == num % den
  IN  IF 2 * r < den THEN q
      ELSE IF 2 * r > den THEN q + 1
      ELSE IF q % 2 = 0 THEN q ELSE q + 1

\* ats_score dividing by the resume's vocabulary.
ats_score_resume_denominator(resume_text, job_description) ==
  LET resume_words == Range(normalize_words(resume_text))
      job_words == Range(normalize_words(job_description))
      matches == resume_words \cap job_words
  IN  IF job_words = {} \/ resume_words = {}
        THEN 0
        ELSE RoundHalfEven(Cardinality(matches) * 10000,
                           Cardinality(resume_words))

\* ats_score scoring an empty vocabulary as a full match.
ats_score_empty_full(resume_text, job_description) ==
  LET resume_words == Range(normalize_words(resume_text))
      job_words == Range(normalize_words(job_description))
      matches == resume_words \cap job_words
  IN  IF job_words = {}
        THEN 10000
        ELSE RoundHalfEven(Cardinality(matches) * 10000,
                           Cardinality(job_words))

\* The score in hundredths.
ats_score(resume_text, job_description) ==
  LET resume_words == Range(normalize_words(resume_text))
      job_words == Range(normalize_words(job_description))
      matches == resume_words \cap job_words
  IN  IF job_words = {}
        THEN 0
        ELSE RoundHalfEven(Cardinality(matches) * 10000,
                           Cardinality(job_words))

\* ----------------------------------------------------------------- filter

RECURSIVE filter_strict(_, _, _)
\* filter_jobs_by_score with > for >=.
filter_strict(jobs, resume_text, threshold) ==
  IF jobs = <<>>
    THEN <<>>
    ELSE LET job == Head(jobs)
             score == ats_score(resume_text, job.description)
             rest == filter_strict(Tail(jobs), resume_text, threshold)
         IN  IF score > threshold
               THEN <<[job |-> job, score |-> score]>> \o rest
               ELSE rest

RECURSIVE filter_below(_, _, _)
\* filter_jobs_by_score with the comparison turned round.
filter_below(jobs, resume_text, threshold) ==
  IF jobs = <<>>
    THEN <<>>
    ELSE LET job == Head(jobs)
             score == ats_score(resume_text, job.description)
             rest == filter_below(Tail(jobs), resume_text, threshold)
         IN  IF score <= threshold
               THEN <<[job |-> job, score |-> score]>> \o rest
               ELSE rest

RECURSIVE filter_loop(_, _, _)
\* The for loop of filter_jobs_by_score over the postings still to visit.
filter_loop(jobs, resume_text, threshold) ==
  IF jobs = <<>>
    THEN <<>>
    ELSE LET job == Head(jobs)
             score == ats_score(resume_text, job.description)
             rest == filter_loop(Tail(jobs), resume_text, threshold)
         IN  IF score >= threshold
               THEN <<[job |-> job, score |-> score]>> \o rest
               ELSE rest

filter_jobs_by_score(jobs, resume_text, threshold) ==
  filter_loop(jobs, resume_text, threshold)

\* ----------------------------------------------------------------- loader

\* item.get(key, default) on one record of the jobs file.
Get(item, key, default) == IF key \in DOMAIN item THEN item[key] ELSE default

\* Job(...) as load_jobs builds it; an "id" of the file is a JSON number,
\* which str() renders in decimal, and str("") is "".
MakeJob(item) ==
  [job_id |-> IF "id" \in DOMAIN item THEN ToString(item["id"]) ELSE "",
   title |-> Get(item, "title", ""),
   company |-> Get(item, "company", ""),
   location |-> Get(item, "location", ""),
   description |-> Get(item, "description", <<>>),
   url |-> Get(item, "url", "")]

load_jobs(data) == [k \in DOMAIN data |-> MakeJob(data[k])]

\* ----------------------------------------------------------------- logger

\* The line log_application formats; {score:.2f} prints the hundredths.
LogEntry(timestamp, job, score) ==
  [timestamp |-> timestamp, status |-> "APPLIED", job_id |-> job.job_id,
   title |-> job.title, company |-> job.company,
   location |-> job.location, score |-> score, url |-> job.url]

\* log_application opening the file with "w".
log_application_truncate(file, timestamp, job, score) ==
  [exists |-> TRUE, lines |-> <<LogEntry(timestamp, job, score)>>]

\* The file after log_path.open("a") and handle.write(entry).
log_application(file, timestamp, job, score) ==
  [exists |-> TRUE,
   lines |-> Append(file.lines, LogEntry(timestamp, job, score))]

\* -------------------------------------------------------------- scheduler

\* main catching the error of a pass and carrying on with the loop.
main_handler_retry(kind) == "sleep"

\* main has no try/except: an exception raised in a pass ends the process.
main_handler(kind) == "crashed"

\* main falling through to the loop after the --once pass.
main_after_run_once_no_return(once) == "sleep"

\* Where main goes when run_once returns: return, or log and sleep.
main_after_run_once(once) == IF once THEN "returned" ELSE "sleep"

\* run_once opening the log whether or not a posting is eligible.
run_once_branch_always_apply(eligible) == "log_open"

\* run_once's "if not eligible_jobs: return", else on to apply_to_jobs.
run_once_branch(eligible) ==
  IF eligible = <<>> THEN "pass_done" ELSE "log_open"

\* apply_to_jobs skipping a posting whose line is in the log already.
apply_next_dedup(eligible, k, file) ==
  IF k > Len(eligible) THEN "pass_done"
  ELSE IF \E n \in DOMAIN file.lines :
            file.lines[n].job_id = eligible[k].job.job_id
    THEN "pass_done"
    ELSE "log_open"

\* apply_to_jobs' for loop: on to posting k, or back to run_once's caller.
apply_next(eligible, k, file) ==
  IF k > Len(eligible) THEN "pass_done" ELSE "log_open"

\* ------------------------------------------------------------------ inputs

ExampleResume ==
  <<"E", "x", "p", "e", "r", "i", "e", "n", "c", "e", "d", " ", "P", "y",
    "t", "h", "o", "n", " ", "d", "e", "v", "e", "l", "o", "p", "e", "r",
    " ", "w", "i", "t", "h", " ", "G", "o", " ", "a", "n", "d", " ", "S",
    "Q", "L", " ", "s", "k", "i", "l", "l", "s">>

ExampleJob ==
  <<"W", "e", " ", "n", "e", "e", "d", " ", "a", " ", "P", "y", "t", "h",
    "o", "n", " ", "d", "e", "v", "e", "l", "o", "p", "e", "r", " ", "f",
    "a", "m", "i", "l", "i", "a", "r", " ", "w", "i", "t", "h", " ", "S",
    "Q", "L", ".">>

DescPythonSql == <<"P", "y", "t", "h", "o", "n", " ", "S", "Q", "L">>

DescGoRust ==
  <<"G", "o", " ", "a", "n", "d", " ", "R", "u", "s", "t", " ", "d", "e",
    "v", "s">>

DescThree ==
  <<"p", "y", "t", "h", "o", "n", " ", "g", "o", " ", "c", "#">>

ResumeShort == <<"C", "+", "+", " ", "a", "n", "d", " ", "G", "o">>

\* The characters the short texts are spelled with.
Alphabet == {"a", ".", " "}

BoundedTexts(n) == UNION {[1..k -> Alphabet] : k \in 0..n}

ResumeTexts == BoundedTexts(MaxResumeLen) \cup {ExampleResume, ResumeShort}

JobTexts ==
  BoundedTexts(MaxJobLen)
    \cup {ExampleJob, DescPythonSql, DescGoRust, DescThree}

\* --threshold values handed to the filter alone.
ScoreThresholds == {-100, 0, 1, 5000, 8000}

\* Records of a jobs file: every key is optional.
Items ==
  {[id |-> 1, title |-> "Backend Engineer", company |-> "Acme",
    location |-> "Remote", description |-> ExampleJob,
    url |-> "http://x/1"],
   [id |-> 2, title |-> "Data Engineer", description |-> DescPythonSql],
   [id |-> 3, title |-> "Go Developer", company |-> "Gopher",
    description |-> DescGoRust],
   [title |-> "Untitled"]}

JobsFiles == UNION {[1..k -> Items] : k \in 0..MaxJobs}

Resumes == {ExampleResume, ResumeShort}

\* --threshold values of the scheduler's runs.
Thresholds == {0, 5000, 8000}

\* --interval-minutes values; time.sleep refuses a negative length.
Intervals == {-1, 60}

\* The log file before the program starts: absent, or holding a line of an
\* earlier run.
InitialLogs ==
  {[exists |-> FALSE, lines |-> <<>>],
   [exists |-> TRUE,
    lines |-> <<[timestamp |-> -1, status |-> "APPLIED", job_id |-> "3",
                 title |-> "Go Developer", company |-> "Gopher",
                 location |-> "", score |-> 5000, url |-> ""]>>]}

\* ------------------------------------------------------------------- state

VARIABLES
  pc,            \* where main (or the called function) stands
  args,          \* the parsed command line
  resume_file,   \* content of the --resume file
  jobs_file,     \* content of the --jobs-file file, parsed
  log,           \* the --log file: whether it exists, and its lines
  resume_text,   \* run_once's local
  jobs,          \* run_once's local
  eligible_jobs, \* run_once's local
  idx,           \* position of apply_to_jobs' loop in eligible_jobs
  score,         \* last value returned by ats_score
  exc,           \* the exception that ended the process, or "none"
  now,           \* seconds on the clock datetime.utcnow() reads
  passes,        \* calls of run_once so far
  events,        \* the passes started and the sleeps finished, in order
  history,       \* the log file as it was when each pass started
  opened         \* whether this pass has opened the log file

vars ==
  <<pc, args, resume_file, jobs_file, log, resume_text, jobs,
    eligible_jobs, idx, score, exc, now, passes, events, history, opened>>

\* The command line with every option left at its default.
DefaultArgs ==
  [once |-> FALSE, threshold |-> 8000, interval_minutes |-> 60]

\* The state in which main is entered.
Init ==
  /\ pc = "main"
  /\ args \in [once : BOOLEAN, threshold : Thresholds,
               interval_minutes : Intervals]
  /\ resume_file \in Resumes
  /\ jobs_file \in JobsFiles
  /\ log \in InitialLogs
  /\ resume_text = <<>>
  /\ jobs = <<>>
  /\ eligible_jobs = <<>>
  /\ idx = 0
  /\ score = 0
  /\ exc = "none"
  /\ now = 0
  /\ passes = 0
  /\ events = <<>>
  /\ history = <<>>
  /\ opened = FALSE

\* An exception leaves the function that raised it and reaches main.
Raise(kind) ==
  /\ exc' = kind
  /\ pc' = main_handler(kind)

\* main calls run_once: once under --once, else at the top of the loop.
CallRunOnce ==
  /\ pc \in {"main", "loop"}
  /\ passes < MaxPasses
  /\ pc' = "read_resume"
  /\ passes' = passes + 1
  /\ events' = Append(events, [kind |-> "pass", seconds |-> 0])
  /\ history' = Append(history, log)
  /\ opened' = FALSE
  /\ UNCHANGED <<args, resume_file, jobs_file, log, resume_text, jobs,
                 eligible_jobs, idx, score, exc, now>>

\* args.resume.read_text(): the text, or the file cannot be read.
ReadResume ==
  /\ pc = "read_resume"
  /\ \/ /\ resume_text' = resume_file
        /\ pc' = "load_jobs"
        /\ exc' = exc
     \/ /\ Raise("InputNotFound")
        /\ resume_text' = resume_text
  /\ UNCHANGED <<args, resume_file, jobs_file, log, jobs, eligible_jobs,
                 idx, score, now, passes, events, history, opened>>

\* load_jobs(args.jobs_file): the postings, or the file cannot be read, or
\* it does not hold a list of records.
LoadJobs ==
  /\ pc = "load_jobs"
  /\ \/ /\ jobs' = load_jobs(jobs_file)
        /\ pc' = "filter"
        /\ exc' = exc
     \/ /\ Raise("InputNotFound")
        /\ jobs' = jobs
     \/ /\ Raise("MalformedInput")
        /\ jobs' = jobs
  /\ UNCHANGED <<args, resume_file, jobs_file, log, resume_text,
                 eligible_jobs, idx, score, now, passes, events, history,
                 opened>>

\* filter_jobs_by_score(jobs, resume_text, args.threshold).
Filter ==
  /\ pc = "filter"
  /\ eligible_jobs' = filter_jobs_by_score(jobs, resume_text, args.threshold)
  /\ score' = IF jobs = <<>> THEN score
              ELSE ats_score(resume_text, jobs[Len(jobs)].description)
  /\ pc' = "check"
  /\ UNCHANGED <<args, resume_file, jobs_file, log, resume_text, jobs, idx,
                 exc, now, passes, events, history, opened>>

\* run_once after filtering: return when nothing is eligible, else call
\* apply_to_jobs.
Check ==
  /\ pc = "check"
  /\ pc' = run_once_branch(eligible_jobs)
  /\ idx' = 1
  /\ UNCHANGED <<args, resume_file, jobs_file, log, resume_text, jobs,
                 eligible_jobs, score, exc, now, passes, events, history,
                 opened>>

\* log_application: log_path.open("a") creates the file when it is absent,
\* or fails.
LogOpen ==
  /\ pc = "log_open"
  /\ \/ /\ log' = [log EXCEPT !.exists = TRUE]
        /\ opened' = TRUE
        /\ pc' = "log_write"
        /\ exc' = exc
     \/ /\ Raise("LogWriteFailure")
        /\ UNCHANGED <<log, opened>>
  /\ UNCHANGED <<args, resume_file, jobs_file, resume_text, jobs,
                 eligible_jobs, idx, score, now, passes, events, history>>

\* log_application: handle.write(entry) and the close; apply_to_jobs then
\* moves to the next pair.
LogWrite ==
  /\ pc = "log_write"
  /\ idx <= Len(eligible_jobs)
  /\ log' = log_application(log, now, eligible_jobs[idx].job,
                            eligible_jobs[idx].score)
  /\ idx' = idx + 1
  /\ pc' = apply_next(eligible_jobs, idx + 1, log')
  /\ UNCHANGED <<args, resume_file, jobs_file, resume_text, jobs,
                 eligible_jobs, score, exc, now, passes, events, history,
                 opened>>

\* run_once has returned to main.
AfterRunOnce ==
  /\ pc = "pass_done"
  /\ pc' = main_after_run_once(args.once)
  /\ UNCHANGED <<args, resume_file, jobs_file, log, resume_text, jobs,
                 eligible_jobs, idx, score, exc, now, passes, events,
                 history, opened>>

\* time.sleep(args.interval_minutes * 60).
Sleep ==
  /\ pc = "sleep"
  /\ IF args.interval_minutes < 0
       THEN /\ Raise("ValueError")
            /\ UNCHANGED <<now, events>>
       ELSE /\ now' = now + args.interval_minutes * 60
            /\ events' = Append(events,
                 [kind |-> "sleep", seconds |-> args.interval_minutes * 60])
            /\ pc' = "loop"
            /\ exc' = exc
  /\ UNCHANGED <<args, resume_file, jobs_file, log, resume_text, jobs,
                 eligible_jobs, idx, score, passes, history, opened>>

\* The process is ended from outside.
Terminate ==
  /\ pc \notin {"returned", "crashed", "killed"}
  /\ pc' = "killed"
  /\ UNCHANGED <<args, resume_file, jobs_file, log, resume_text, jobs,
                 eligible_jobs, idx, score, exc, now, passes, events,
                 history, opened>>

\* A step of the program itself.
Step ==
  \/ CallRunOnce
  \/ ReadResume
  \/ LoadJobs
  \/ Filter
  \/ Check
  \/ LogOpen
  \/ LogWrite
  \/ AfterRunOnce
  \/ Sleep

Next == Step \/ Terminate

Spec == Init /\ [][Next]_vars

\* The runs followed for progress: every mode, interval and jobs file, on
\* one resume, one threshold and a log file that is absent at the start.
InitFair ==
  /\ Init
  /\ resume_file = ExampleResume
  /\ args.threshold = 5000
  /\ ~log.exists

\* The interpreter keeps running the program until it ends.
FairSpec == InitFair /\ [][Next]_vars /\ WF_vars(Step)

\* ------------------------------------------------- the scorer on its own

\* One posting, one resume, before ats_score is called.
InitScore ==
  /\ pc = "call"
  /\ args = DefaultArgs
  /\ resume_text \in ResumeTexts
  /\ \E d \in JobTexts : jobs = load_jobs(<<[description |-> d]>>)
  /\ resume_file = <<>>
  /\ jobs_file = <<>>
  /\ log = [exists |-> FALSE, lines |-> <<>>]
  /\ eligible_jobs = <<>>
  /\ idx = 0
  /\ score = 0
  /\ exc = "none"
  /\ now = 0
  /\ passes = 0
  /\ events = <<>>
  /\ history = <<>>
  /\ opened = FALSE

\* ats_score(resume_text, job.description).
CallAtsScore ==
  /\ pc = "call"
  /\ score' = ats_score(resume_text, jobs[1].description)
  /\ pc' = "scored"
  /\ UNCHANGED <<args, resume_file, jobs_file, log, resume_text, jobs,
                 eligible_jobs, idx, exc, now, passes, events, history,
                 opened>>

\* filter_jobs_by_score on the one posting, at some threshold.
CallFilter ==
  /\ pc = "scored"
  /\ \E t \in ScoreThresholds :
       /\ args' = [args EXCEPT !.threshold = t]
       /\ eligible_jobs' = filter_jobs_by_score(jobs, resume_text, t)
  /\ pc' = "filtered"
  /\ UNCHANGED <<resume_file, jobs_file, log, resume_text, jobs, idx,
                 score, exc, now, passes, events, history, opened>>

NextScore == CallAtsScore \/ CallFilter

SpecScore == InitScore /\ [][NextScore]_vars

\* ------------------------------------------------------------ properties

Abs(x) == IF x < 0 THEN -x ELSE x

IsPrefix(s, t) == Len(s) <= Len(t) /\ SubSeq(t, 1, Len(s)) = s

\* s can be had from t by deleting elements.
RECURSIVE IsSubseq(_, _)
IsSubseq(s, t) ==
  IF s = <<>> THEN TRUE
  ELSE IF t = <<>> THEN FALSE
  ELSE IF Head(s) = Head(t) THEN IsSubseq(Tail(s), Tail(t))
  ELSE IsSubseq(s, Tail(t))

\* ats_score has returned.
Scored == pc \in {"scored", "filtered"}

ResumeWords == Range(normalize_words(resume_text))

JobWords == Range(normalize_words(jobs[1].description))

IsExample ==
  /\ Scored
  /\ resume_text = ExampleResume
  /\ jobs[1].description = ExampleJob

\* C1 as the spec states it: on the example resume and description the
\* score is 57.14, the posting is kept at threshold 50 and dropped at 80.
C1_Stated ==
  IsExample =>
    /\ score = 5714
    /\ pc = "filtered" /\ args.threshold = 5000 => Len(eligible_jobs) = 1
    /\ pc = "filtered" /\ args.threshold = 8000 => eligible_jobs = <<>>

\* C1, amended: on the example resume and description the description has
\* 7 tokens, of which "sql." is one and "sql" is not, 3 of them are shared
\* with the resume, the score is 42.86, and the posting is dropped at
\* threshold 50 and at threshold 80.
C1_Example ==
  IsExample =>
    /\ Cardinality(JobWords) = 7
    /\ <<"s", "q", "l", ".">> \in JobWords
    /\ <<"s", "q", "l">> \notin JobWords
    /\ Cardinality(ResumeWords \cap JobWords) = 3
    /\ score = 4286
    /\ pc = "filtered" /\ args.threshold \in {5000, 8000}
         => eligible_jobs = <<>>

C1_Witness ==
  /\ IsExample
  /\ pc = "filtered"
  /\ args.threshold = 5000
  /\ eligible_jobs = <<>>

\* C2: the score lies in [0, 100] and, when the description has a token, is
\* the hundredth nearest to 100 * |resume tokens /\ job tokens| / |job
\* tokens|: the job's vocabulary is the denominator.
C2_ScoreFormula ==
  Scored =>
    LET m == Cardinality(ResumeWords \cap JobWords)
        n == Cardinality(JobWords)
    IN  /\ score \in 0..10000
        /\ n > 0 => 2 * Abs(score * n - 10000 * m) <= n

C2_Witness ==
  /\ pc = "scored"
  /\ score = 6667
  /\ Cardinality(JobWords) = 3
  /\ Cardinality(ResumeWords) = 8
  /\ Cardinality(ResumeWords \cup JobWords) = 9

\* C3: a description without a token scores 0.0 whatever the resume, and
\* the filter keeps its posting exactly when the threshold is at most 0.
C3_EmptyVocabulary ==
  Scored /\ JobWords = {} =>
    /\ score = 0
    /\ pc = "filtered" => (eligible_jobs # <<>> <=> args.threshold <= 0)

C3_Witness ==
  /\ pc = "filtered"
  /\ jobs[1].description # <<>>
  /\ JobWords = {}
  /\ ResumeWords # {}
  /\ args.threshold = 1
  /\ eligible_jobs = <<>>

\* filter_jobs_by_score has returned in the pass under way.
Filtered == pc \in {"check", "log_open", "log_write", "pass_done"}

ScoreOf(k) == ats_score(resume_text, jobs[k].description)

\* The positions of the postings whose score reaches the threshold.
Kept == {k \in DOMAIN jobs : ScoreOf(k) >= args.threshold}

\* The p-th smallest position in Kept.
NthKept(p) == CHOOSE k \in Kept : Cardinality({j \in Kept : j < k}) = p - 1

\* C4: the filter returns one pair for each posting whose score is at least
\* the threshold and for no other, in the order of the input, each with the
\* posting's ats_score.
C4_FilterExact ==
  Filtered =>
    /\ Len(eligible_jobs) = Cardinality(Kept)
    /\ \A p \in DOMAIN eligible_jobs :
         /\ eligible_jobs[p].job = jobs[NthKept(p)]
         /\ eligible_jobs[p].score = ScoreOf(NthKept(p))

C4_Witness ==
  /\ Filtered
  /\ Len(jobs) = 2
  /\ ScoreOf(1) < args.threshold
  /\ ScoreOf(2) = args.threshold
  /\ args.threshold > 0
  /\ eligible_jobs = <<[job |-> jobs[2], score |-> args.threshold]>>

\* Thresholds the filter is compared at.
ProbeThresholds == {0, 4286, 5000, 5001, 10001}

\* C5: when filter_jobs_by_score returns, for thresholds t1 <= t2 the
\* result at t2 is a subsequence of the result at t1, and the list returned
\* lies between the results at the lower and at the higher thresholds.
C5_Monotonic ==
  pc = "check" =>
    /\ \A t1, t2 \in ProbeThresholds :
         t1 <= t2 =>
           IsSubseq(filter_jobs_by_score(jobs, resume_text, t2),
                    filter_jobs_by_score(jobs, resume_text, t1))
    /\ \A t \in ProbeThresholds :
         /\ t <= args.threshold =>
              IsSubseq(eligible_jobs,
                       filter_jobs_by_score(jobs, resume_text, t))
         /\ t >= args.threshold =>
              IsSubseq(filter_jobs_by_score(jobs, resume_text, t),
                       eligible_jobs)

C5_Witness ==
  /\ pc = "check"
  /\ args.threshold = 5000
  /\ Len(eligible_jobs) = 1
  /\ Len(filter_jobs_by_score(jobs, resume_text, 4286)) = 2
  /\ filter_jobs_by_score(jobs, resume_text, 5001) = <<>>

\* The log file as it was when the pass under way (or the last one) began.
PassStart == history[Len(history)]

\* A line without its timestamp.
Content(line) == [line EXCEPT !.timestamp = 0]

Contents(lines) == [k \in DOMAIN lines |-> Content(lines[k])]

\* The lines appended since the pass began.
Appended == SubSeq(log.lines, Len(PassStart.lines) + 1, Len(log.lines))

\* The lines of the first k eligible postings.
ExpectedLines(k) ==
  [p \in 1..k |-> Content(LogEntry(0, eligible_jobs[p].job,
                                   eligible_jobs[p].score))]

BatchIsPrefix ==
  passes > 0 =>
    /\ IsPrefix(PassStart.lines, log.lines)
    /\ Len(Appended) <= Len(eligible_jobs)
    /\ Contents(Appended) = ExpectedLines(Len(Appended))

Completed ==
  IF pc \in {"pass_done", "sleep", "loop", "returned"}
    THEN passes
    ELSE IF passes > 0 THEN passes - 1 ELSE 0

\* The lines pass p appended (p is a completed pass).
Batch(p) ==
  LET from == Len(history[p].lines)
      to == IF p < Len(history) THEN Len(history[p + 1].lines)
            ELSE Len(log.lines)
  IN  SubSeq(log.lines, from + 1, to)

\* C7: two consecutive completed passes append batches that are equal but
\* for the timestamps, each one line per eligible posting, so that the log
\* grows by n lines with every pass: by 2n after two.
C7_NoDeduplication ==
  /\ \A p \in 1..Completed :
       /\ Contents(Batch(p)) = ExpectedLines(Len(eligible_jobs))
       /\ p > 1 => Contents(Batch(p)) = Contents(Batch(p - 1))
  /\ Completed > 0 =>
       Len(log.lines) - Len(history[1].lines)
         = IF pc \in {"pass_done", "sleep", "loop", "returned"}
             THEN Completed * Len(Batch(1))
             ELSE Completed * Len(Batch(1)) + Len(Appended)

C7_Witness ==
  /\ Completed = 2
  /\ history[1].lines = <<>>
  /\ Len(Batch(1)) = 2
  /\ Len(log.lines) = 4
  /\ log.lines[1].timestamp # log.lines[3].timestamp
  /\ Content(log.lines[1]) = Content(log.lines[3])

\* C8: an exception ends the process where it is raised: the step that
\* raises it leaves the log, the passes and the sleeps as they were, and
\* from then on nothing runs.
C8_FatalError ==
  /\ [](exc # "none" => pc = "crashed")
  /\ [][exc' # exc =>
          /\ log' = log
          /\ events' = events
          /\ passes' = passes]_vars
  /\ [][pc # "crashed"]_vars

C8_Witness ==
  /\ pc = "crashed"
  /\ ~args.once
  /\ exc = "LogWriteFailure"
  /\ passes = 2
  /\ Len(history[2].lines) = Len(history[1].lines) + 2
  /\ Len(Appended) = 1

\* Passes and sleeps alternate, a pass first, each sleep of the interval.
Alternates ==
  \A k \in DOMAIN events :
    events[k] = IF k % 2 = 1
                  THEN [kind |-> "pass", seconds |-> 0]
                  ELSE [kind |-> "sleep",
                        seconds |-> args.interval_minutes * 60]

Stopped == pc \in {"crashed", "killed"}

\* C9: with --once main returns after exactly one pass and no sleep; without
\* it main never returns, passes and sleeps alternate, and unless an error
\* or a termination from outside ends the process every pass up to the
\* MaxPasses-th and the sleep after it take place.
C9_Modes ==
  /\ [](args.once /\ pc = "returned"
          => events = <<[kind |-> "pass", seconds |-> 0]>>)
  /\ (args.once => <>(pc = "returned" \/ Stopped))
  /\ [](~args.once => pc # "returned")
  /\ []Alternates
  /\ (~args.once => <>(Stopped \/ Len(events) = 2 * MaxPasses))

C9_Witness ==
  /\ ~args.once
  /\ pc = "loop"
  /\ passes = MaxPasses
  /\ Len(events) = 2 * MaxPasses
  /\ now = MaxPasses * args.interval_minutes * 60

\* C10: in a pass the log is neither opened nor changed before the resume is
\* read, the jobs are loaded and the eligible list is computed, nor in a
\* pass that fails on an input or finds no eligible posting.
C10_LogUntouched ==
  /\ pc \in {"read_resume", "load_jobs", "filter", "check"}
       => log = PassStart /\ ~opened
  /\ pc = "crashed" /\ exc \in {"InputNotFound", "MalformedInput"}
       => log = PassStart /\ ~opened
  /\ pc = "pass_done" /\ eligible_jobs = <<>>
       => log = PassStart /\ ~opened
  /\ opened =>
       /\ resume_text = resume_file
       /\ jobs = load_jobs(jobs_file)
       /\ eligible_jobs
            = filter_jobs_by_score(jobs, resume_text, args.threshold)
       /\ eligible_jobs # <<>>

C10_Witness ==
  /\ pc = "pass_done"
  /\ jobs # <<>>
  /\ eligible_jobs = <<>>
  /\ ~log.exists
  /\ ~opened

=============================================================================
